---- MODULE Spec2Model ----
\* Aho-Corasick multi-pattern matcher (src/aho-corasick.py): the constructor
\* (build_trie, build_fail_links) and search, as a state machine.
\*
\* Node ids are 0-based as in the source: trie, fail and output are functions
\* on 0..n-1.  A node's children dict is a sequence of [ch, to] entries in
\* insertion order (a Python dict iterates in insertion order).  patterns and
\* text are sequences of symbols; the source's pattern index k and text
\* position i are element k+1 and i+1 here.
EXTENDS Integers, Sequences, FiniteSets

\* ---------------------------------------------------------------- bounds
MaxPatterns == 2
MaxPatLen == 3
MaxTextLen == 3
CanonShort == 2

\* ---------------------------------------------------------------- inputs
\* "nul" stands for chr(0), a symbol outside string.printable.
Symbol == {"a", "b", "nul"}

\* The part of string.printable (digits, then a..z, ...) the symbols used
\* here fall in, in string.printable's order.
Printable == <<"a", "b", "e", "h", "i", "r", "s", "u">>

SeqsUpTo(S, n) == UNION {[1..k -> S] : k \in 0..n}

PatternLists == SeqsUpTo(SeqsUpTo(Symbol, MaxPatLen), MaxPatterns)

Texts == SeqsUpTo(Symbol, MaxTextLen)

\* The demo of the __main__ block.
CanonPatterns == << <<"h","e">>, <<"s","h","e">>, <<"h","i","s">>, <<"h","e","r","s">> >>

CanonText == <<"u","s","h","e","r","s">>

CanonSymbol == {"e", "h", "i", "r", "s", "u"}

CanonTexts == SeqsUpTo(CanonSymbol, CanonShort) \cup {CanonText}

\* ---------------------------------------------------------------- helpers
Range(s) == {s[i] : i \in DOMAIN s}

\* 0-based lists
Len0(f) == Cardinality(DOMAIN f)

Append0(f, x) == [k \in 0..Len0(f) |-> IF k < Len0(f) THEN f[k] ELSE x]

\* dict: `c in d`
Has(d, c) == \E i \in 1..Len(d) : d[i].ch = c

\* dict: d.get(c, dflt)  (d[c] when the key is present)
Get(d, c, dflt) ==
    IF Has(d, c) THEN d[CHOOSE i \in 1..Len(d) : d[i].ch = c].to ELSE dflt

\* dict: d[c] = v
Put(d, c, v) ==
    IF Has(d, c)
    THEN [i \in 1..Len(d) |-> IF d[i].ch = c THEN [ch |-> c, to |-> v] ELSE d[i]]
    ELSE Append(d, [ch |-> c, to |-> v])

\* ---------------------------------------------------------------- state
VARIABLES pc, patterns, trie, fail, output, pattern_index, queue,
          text, position, node, matches

vars == <<pc, patterns, trie, fail, output, pattern_index, queue,
          text, position, node, matches>>

autoVars == <<patterns, trie, fail, output, pattern_index, queue>>

\* No AhoCorasick object exists yet.
Init ==
    /\ pc = "new"
    /\ patterns = <<>>
    /\ trie = [k \in {0} |-> <<>>]
    /\ fail = [k \in {0} |-> 0]
    /\ output = [k \in {0} |-> <<>>]
    /\ pattern_index = 0
    /\ queue = <<>>
    /\ text = <<>>
    /\ position = 0
    /\ node = 0
    /\ matches = <<>>

\* ---------------------------------------------------------------- build_trie
\* The constructor with a validation step in front that rejects an empty list.
Construct_Validating(ps) ==
    /\ pc = "new"
    /\ patterns' = ps
    /\ trie' = [k \in {0} |-> <<>>]
    /\ fail' = [k \in {0} |-> 0]
    /\ output' = [k \in {0} |-> <<>>]
    /\ pattern_index' = 0
    /\ pc' = IF ps = <<>> THEN "ValidationError" ELSE "build_trie"
    /\ UNCHANGED <<queue, text, position, node, matches>>

\* __init__ up to the first loop iteration of build_trie.
Construct(ps) ==
    /\ pc = "new"
    /\ patterns' = ps
    /\ trie' = [k \in {0} |-> <<>>]
    /\ fail' = [k \in {0} |-> 0]
    /\ output' = [k \in {0} |-> <<>>]
    /\ pattern_index' = 0
    /\ pc' = "build_trie"
    /\ UNCHANGED <<queue, text, position, node, matches>>

\* The inner loop of build_trie: walk/extend the trie along the characters
\* `rest` from node nd; a = [trie, fail, output].
RECURSIVE InsertFrom(_, _, _)
InsertFrom(a, nd, rest) ==
    IF rest = <<>>
    THEN [trie |-> a.trie, fail |-> a.fail, output |-> a.output, node |-> nd]
    ELSE LET character == Head(rest)
             b == IF ~Has(a.trie[nd], character)
                  THEN [trie |-> Append0([a.trie EXCEPT ![nd] =
                                            Put(@, character, Len0(a.trie))], <<>>),
                        fail |-> Append0(a.fail, 0),
                        output |-> Append0(a.output, <<>>)]
                  ELSE a
         IN InsertFrom(b, Get(b.trie[nd], character, 0), Tail(rest))

\* One iteration of `for pattern_index, pattern in enumerate(self.patterns)`.
InsertPattern ==
    /\ pc = "build_trie"
    /\ pattern_index < Len(patterns)
    /\ LET r == InsertFrom([trie |-> trie, fail |-> fail, output |-> output],
                           0, patterns[pattern_index + 1])
       IN /\ trie' = r.trie
          /\ fail' = r.fail
          /\ output' = [r.output EXCEPT ![r.node] = Append(@, pattern_index)]
    /\ pattern_index' = pattern_index + 1
    /\ UNCHANGED <<pc, patterns, queue, text, position, node, matches>>

\* ---------------------------------------------------------------- build_fail_links
\* `for character, child in self.trie[0].items()`: fail[child] = 0, enqueue.
RECURSIVE SeedChildren(_, _)
SeedChildren(items, a) ==
    IF items = <<>> THEN a
    ELSE SeedChildren(Tail(items),
                      [fail |-> [a.fail EXCEPT ![Head(items).to] = 0],
                       queue |-> Append(a.queue, Head(items).to)])

\* The loop variable `child` is still bound after the seeding loop.
RECURSIVE WireRootMissing_ToChild(_, _)
WireRootMissing_ToChild(d, alphabet) ==
    IF alphabet = <<>> THEN d
    ELSE LET last == IF \E i \in 1..Len(d) : d[i].to # 0
                     THEN d[CHOOSE i \in 1..Len(d) :
                              /\ d[i].to # 0
                              /\ \A j \in 1..Len(d) : d[j].to # 0 => j <= i].to
                     ELSE 0
         IN WireRootMissing_ToChild(
                IF ~Has(d, Head(alphabet)) THEN Put(d, Head(alphabet), last) ELSE d,
                Tail(alphabet))

\* The membership test dropped.
RECURSIVE WireRootMissing_NoCheck(_, _)
WireRootMissing_NoCheck(d, alphabet) ==
    IF alphabet = <<>> THEN d
    ELSE WireRootMissing_NoCheck(Put(d, Head(alphabet), 0), Tail(alphabet))

\* `for character in alphabet: if character not in self.trie[0]: self.trie[0][character] = 0`
RECURSIVE WireRootMissing(_, _)
WireRootMissing(d, alphabet) ==
    IF alphabet = <<>> THEN d
    ELSE WireRootMissing(
             IF ~Has(d, Head(alphabet)) THEN Put(d, Head(alphabet), 0) ELSE d,
             Tail(alphabet))

\* build_fail_links up to the BFS loop.
SeedQueue ==
    /\ pc = "build_trie"
    /\ pattern_index = Len(patterns)
    /\ LET s == SeedChildren(trie[0], [fail |-> fail, queue |-> <<>>])
       IN /\ fail' = s.fail
          /\ queue' = s.queue
          /\ pc' = IF s.queue = <<>> THEN "ready" ELSE "bfs"
    /\ trie' = [trie EXCEPT ![0] = WireRootMissing(@, Printable)]
    /\ UNCHANGED <<patterns, output, pattern_index, text, position, node, matches>>

\* The failure loop left out.
FailWalk_NoLoop(tr, fl, fail_state, character) == fail_state

\* `while fail_state != 0 and character not in self.trie[fail_state]`
RECURSIVE FailWalk(_, _, _, _)
FailWalk(tr, fl, fail_state, character) ==
    IF fail_state # 0 /\ ~Has(tr[fail_state], character)
    THEN FailWalk(tr, fl, fl[fail_state], character)
    ELSE fail_state

\* Chaining left out.
ChainOutputs_None(out, child, fail_state) == out

\* `self.output[child].extend(self.output[fail_state])`
ChainOutputs(out, child, fail_state) ==
    [out EXCEPT ![child] = @ \o out[fail_state]]

\* `for character, child in list(self.trie[current].items())`; a = [fail, output, queue].
RECURSIVE ProcessChildren(_, _, _)
ProcessChildren(items, current, a) ==
    IF items = <<>> THEN a
    ELSE LET character == Head(items).ch
             child == Head(items).to
             fail_state == Get(trie[FailWalk(trie, a.fail, a.fail[current], character)],
                               character, 0)
         IN ProcessChildren(Tail(items), current,
                [queue |-> Append(a.queue, child),
                 fail |-> [a.fail EXCEPT ![child] = fail_state],
                 output |-> ChainOutputs(a.output, child, fail_state)])

\* One iteration of `while queue`.
BfsStep ==
    /\ pc = "bfs"
    /\ queue # <<>>
    /\ LET current == Head(queue)
           r == ProcessChildren(trie[current], current,
                                [fail |-> fail, output |-> output, queue |-> Tail(queue)])
       IN /\ fail' = r.fail
          /\ output' = r.output
          /\ queue' = r.queue
          /\ pc' = IF r.queue = <<>> THEN "ready" ELSE "bfs"
    /\ UNCHANGED <<patterns, trie, pattern_index, text, position, node, matches>>

\* ---------------------------------------------------------------- search
Usable == {"ready", "search", "returned"}

\* search(text) up to the loop.
SearchStart(t) ==
    /\ pc = "ready"
    /\ text' = t
    /\ position' = 0
    /\ node' = 0
    /\ matches' = <<>>
    /\ pc' = "search"
    /\ UNCHANGED autoVars

\* `while node != 0 and character not in self.trie[node]: node = self.fail[node]`
RECURSIVE Walk(_, _)
Walk(nd, character) ==
    IF nd # 0 /\ ~Has(trie[nd], character) THEN Walk(fail[nd], character) ELSE nd

\* `node = self.trie[node].get(character, 0)` after the failure walk.
Goto(nd, character) == Get(trie[Walk(nd, character)], character, 0)

\* Off by one.
Start_OffByOne(pos, k) == pos - Len(patterns[k + 1])

\* `start = position - len(self.patterns[pattern_index]) + 1`
Start(pos, k) == pos - Len(patterns[k + 1]) + 1

\* matches.insert(0, ...) in place of append.
EmitAll_Prepend(ms, pos, outs) ==
    [j \in 1..Len(outs) |-> <<Start(pos, outs[Len(outs) + 1 - j]), outs[Len(outs) + 1 - j]>>] \o ms

\* `for pattern_index in self.output[node]: matches.append((start, pattern_index))`
EmitAll(ms, pos, outs) ==
    ms \o [j \in 1..Len(outs) |-> <<Start(pos, outs[j]), outs[j]>>]

\* One iteration of `for position, character in enumerate(text)`.
SearchStep ==
    /\ pc = "search"
    /\ position < Len(text)
    /\ LET nxt == Goto(node, text[position + 1])
       IN /\ node' = nxt
          /\ matches' = EmitAll(matches, position, output[nxt])
    /\ position' = position + 1
    /\ UNCHANGED <<pc, text>>
    /\ UNCHANGED autoVars

\* `return matches`
SearchReturn ==
    /\ pc = "search"
    /\ position = Len(text)
    /\ pc' = "returned"
    /\ UNCHANGED <<text, position, node, matches>>
    /\ UNCHANGED autoVars

\* The caller drops the returned list; search kept nothing on self, so the
\* object is as the constructor left it and may be searched again.
Discard ==
    /\ pc = "returned"
    /\ pc' = "ready"
    /\ text' = <<>>
    /\ position' = 0
    /\ node' = 0
    /\ matches' = <<>>
    /\ UNCHANGED autoVars

\* ---------------------------------------------------------------- specifications
Next ==
    \/ \E ps \in PatternLists : Construct(ps)
    \/ InsertPattern
    \/ SeedQueue
    \/ BfsStep
    \/ \E t \in Texts : SearchStart(t)
    \/ SearchStep
    \/ SearchReturn
    \/ Discard

Spec == Init /\ [][Next]_vars

\* The demo's automaton, searched on the demo's text and on short texts.
NextCanon ==
    \/ Construct(CanonPatterns)
    \/ InsertPattern
    \/ SeedQueue
    \/ BfsStep
    \/ \E t \in CanonTexts : SearchStart(t)
    \/ SearchStep
    \/ SearchReturn
    \/ Discard

SpecCanon == Init /\ [][NextCanon]_vars

\* ---------------------------------------------------------------- properties
Nodes == DOMAIN trie

Built == pc \in Usable

\* the constructor has returned and no search is under way
Constructed == pc = "ready"

PatternIdx == 0..(Len(patterns) - 1)

Pat(k) == patterns[k + 1]

\* p occurs in t at 0-based offset s
OccursAt(p, t, s) ==
    /\ s >= 0
    /\ s + Len(p) <= Len(t)
    /\ \A i \in 1..Len(p) : t[s + i] = p[i]

\* a step of the search loop is being taken
Stepped == pc = "search" /\ position' = position + 1

\* the pairs appended by the step
Emitted == {matches'[j] : j \in (Len(matches) + 1)..Len(matches')}

\* C1: after search returns, every occurrence of a non-empty pattern k at
\* offset s of the text is reported as the pair (s, k).
C1_Completeness ==
    pc = "returned" =>
        \A k \in PatternIdx : \A s \in 0..(Len(text) - 1) :
            (Len(Pat(k)) >= 1 /\ OccursAt(Pat(k), text, s)) => <<s, k>> \in Range(matches)

\* two reported occurrences of non-empty patterns overlap
C1_Witness ==
    /\ pc = "returned"
    /\ \E i, j \in DOMAIN matches :
          /\ Len(Pat(matches[i][2])) >= 2
          /\ Len(Pat(matches[j][2])) >= 1
          /\ matches[i][1] < matches[j][1]
          /\ matches[j][1] < matches[i][1] + Len(Pat(matches[i][2]))
          /\ OccursAt(Pat(matches[i][2]), text, matches[i][1])
          /\ OccursAt(Pat(matches[j][2]), text, matches[j][1])

\* C2: every reported pair (start, k) has a valid pattern index, start >= 0,
\* and the text holds patterns[k] at start.
C2_Soundness ==
    \A j \in DOMAIN matches :
        /\ matches[j][2] \in PatternIdx
        /\ matches[j][1] >= 0
        /\ OccursAt(Pat(matches[j][2]), text, matches[j][1])

\* a pattern of two or more symbols was reported at offset 0
C2_Witness ==
    /\ pc = "returned"
    /\ \E j \in DOMAIN matches : matches[j][1] = 0 /\ Len(Pat(matches[j][2])) >= 2

\* C3 as stated: the reported sequence is non-decreasing in start offset.
C3_Claim ==
    \A j \in 1..(Len(matches) - 1) : matches[j][1] <= matches[j + 1][1]

EndOf(m) == m[1] + Len(Pat(m[2])) - 1

\* C3 amended: the reported sequence is non-decreasing in the END offset
\* start + len(patterns[k]) - 1 of the match.
C3_EndOrder ==
    \A j \in 1..(Len(matches) - 1) : EndOf(matches[j]) <= EndOf(matches[j + 1])

\* a returned sequence whose start offsets decrease where the end offsets grow
C3_Witness ==
    /\ pc = "returned"
    /\ \E j \in 1..(Len(matches) - 1) :
          /\ matches[j][1] > matches[j + 1][1]
          /\ EndOf(matches[j]) < EndOf(matches[j + 1])

\* C4 as stated: a build from the empty pattern sequence leaves no usable
\* automaton.
C4_Claim == ~(patterns = <<>> /\ Built)

RootOnly ==
    /\ Nodes = {0}
    /\ fail[0] = 0
    /\ output[0] = <<>>
    /\ \A i \in 1..Len(trie[0]) : trie[0][i].to = 0

\* C4 amended: a build from the empty pattern sequence raises nothing and
\* yields an automaton of the root alone, on which search reports no match.
C4_EmptyBuilds ==
    /\ pc # "ValidationError"
    /\ (patterns = <<>> /\ Built) => (RootOnly /\ node = 0 /\ matches = <<>>)

\* a search of a text on the automaton built from no pattern returned
C4_Witness == patterns = <<>> /\ pc = "returned" /\ Len(text) >= 2

\* C5 as stated: every step of the search loop reports every empty pattern
\* of the list.
C5_Claim ==
    [][Stepped => \A e \in PatternIdx :
                     Pat(e) = <<>> => \E m \in Emitted : m[2] = e]_vars

Reported == {<<m[1], Pat(m[2])>> : m \in Range(matches)}

\* C6 as stated: the demo reports he at 1, she at 0, hers at 3.
C6_Claim ==
    (pc = "returned" /\ patterns = CanonPatterns /\ text = CanonText) =>
        Reported = { <<1, <<"h","e">> >>, <<0, <<"s","h","e">> >>,
                     <<3, <<"h","e","r","s">> >> }

\* C6 amended: the demo reports exactly he at 2, she at 1, hers at 2
\* (and no his).
C6_Canonical ==
    (pc = "returned" /\ patterns = CanonPatterns /\ text = CanonText) =>
        Reported = { <<2, <<"h","e">> >>, <<1, <<"s","h","e">> >>,
                     <<2, <<"h","e","r","s">> >> }

\* the demo's search returned
C6_Witness ==
    pc = "returned" /\ patterns = CanonPatterns /\ text = CanonText /\ Len(matches) = 3

\* the symbol occurs in no pattern
Unseen(c) == \A k \in DOMAIN patterns : c \notin Range(patterns[k])

\* C7 as stated: a step on a symbol of no pattern ends at the root and
\* reports nothing.
C7_Claim ==
    [][(Stepped /\ Unseen(text[position + 1])) =>
          (node' = 0 /\ matches' = matches)]_vars

\* C7 amended: a step on a symbol of no pattern ends at the root and reports
\* no non-empty pattern (only the list's empty patterns, if it has any).
C7_UnseenToRoot ==
    [][(Stepped /\ Unseen(text[position + 1])) =>
          (node' = 0 /\ \A m \in Emitted : Pat(m[2]) = <<>>)]_vars

\* the search has stepped on chr(0), which no pattern holds and the root was
\* not wired for, right after a symbol some pattern starts with, and is at
\* the root
C7_Witness ==
    /\ pc = "search"
    /\ position >= 2
    /\ Unseen(text[position])
    /\ text[position] = "nul"
    /\ \E k \in DOMAIN patterns : Len(patterns[k]) >= 2 /\ patterns[k][1] = text[position - 1]
    /\ node = 0

\* C8 as stated: after construction, output(n) holds every index of
\* output(fail(n)), for every node n.
C8_Claim ==
    Constructed => \A n \in Nodes : Range(output[fail[n]]) \subseteq Range(output[n])

\* the entries of the children dicts, as <<node, place>>
Edges == UNION {{<<m, i>> : i \in 1..Len(trie[m])} : m \in Nodes}

From(e) == e[1]

To(e) == trie[e[1]][e[2]].to

Ch(e) == trie[e[1]][e[2]].ch

\* the entries that are not a loop at the root
ProperEdges == {e \in Edges : ~(From(e) = 0 /\ To(e) = 0)}

\* the prefix a node stands for: the symbols on its path from the root
RECURSIVE Word(_)
Word(n) ==
    IF n = 0 THEN <<>>
    ELSE LET e == CHOOSE e \in ProperEdges : To(e) = n
         IN Append(Word(From(e)), Ch(e))

Prefixes == {SubSeq(p, 1, k) : <<p, k>> \in
                UNION {{<<q, j>> : j \in 0..Len(q)} : q \in Range(patterns)}}

ProperSuffixes(w) == {SubSeq(w, j, Len(w)) : j \in 2..(Len(w) + 1)}

\* the longest proper suffix of w that is a prefix of some pattern
LongestBorder(w) ==
    CHOOSE u \in ProperSuffixes(w) \cap Prefixes :
        \A v \in ProperSuffixes(w) \cap Prefixes : Len(v) <= Len(u)

\* C9: after construction fail(0) = 0 and, for every other node n standing for
\* prefix w, fail(n) stands for the longest proper suffix of w that is a prefix
\* of some pattern; fail(n) is strictly shallower than n.
C9_FailLinks ==
    Constructed =>
        /\ fail[0] = 0
        /\ \A n \in Nodes \ {0} :
              /\ Word(fail[n]) = LongestBorder(Word(n))
              /\ Len(Word(fail[n])) < Len(Word(n))

\* a node whose failure chain passes two non-root nodes
C9_Witness ==
    /\ pc = "ready"
    /\ \E n \in Nodes : fail[n] # 0 /\ fail[fail[n]] # 0
    /\ \E n \in Nodes : Len(Word(n)) >= 2 /\ fail[n] = 0

Depths == 0..(Len0(trie) - 1)

\* lv[k]: the nodes k edges of E away from the root, for k up to the node count
RECURSIVE LevelsUpTo(_, _)
LevelsUpTo(k, E) ==
    IF k = 0 THEN <<{0}>>
    ELSE LET lv == LevelsUpTo(k - 1, E)
         IN Append(lv, {To(e) : e \in {d \in E : From(d) \in lv[k]}})

\* E is a tree rooted at node 0 that spans the nodes
IsTree(E) ==
    LET lv == LevelsUpTo(Len0(trie), E)
    IN /\ \A e \in E : From(e) # To(e)
       /\ \A e \in E : To(e) # 0
       /\ \A n \in Nodes \ {0} : Cardinality({e \in E : To(e) = n}) = 1
       /\ \A n \in Nodes : \E k \in Depths : n \in lv[k + 1]
       /\ \A e \in E : \A k \in Depths :
             From(e) \in lv[k + 1] =>
                 /\ To(e) \in lv[k + 2]
                 /\ \A j \in 0..k : To(e) \notin lv[j + 1]

\* C10 as stated: after construction the children entries form a tree; the
\* root has no incoming entry.
C10_Claim == Constructed => IsTree(Edges)

\* the first symbols of the patterns
Heads == {p[1] : p \in {q \in Range(patterns) : q # <<>>}}

\* C10 amended: after construction the children entries other than the
\* root's loops form a tree, and the root's loops are exactly one entry per
\* printable symbol that starts no pattern.
C10_TreePlusRootLoops ==
    Constructed =>
        /\ IsTree(ProperEdges)
        /\ {Ch(e) : e \in Edges \ ProperEdges} = Range(Printable) \ Heads
        /\ \A e, d \in Edges : (From(e) = From(d) /\ Ch(e) = Ch(d)) => e = d

\* an automaton of three levels with a loop at the root next to real children
C10_Witness ==
    /\ pc = "ready"
    /\ LevelsUpTo(3, ProperEdges)[4] # {}
    /\ Edges # ProperEdges
    /\ Cardinality({e \in ProperEdges : From(e) = 0}) >= 2

====
